---- MODULE Spec2Model ----
(***************************************************************************)
(* Interview voice-bot backend (src/app.py): the HTTP handlers             *)
(* start_interview, get_question, submit_answer, finish_interview,         *)
(* get_answers and update_answer over three stores:                        *)
(*   sessions    Supabase table "sessions"   {candidate_id, q_index, status}*)
(*   interviews  Supabase table "interviews" one row per submitted answer  *)
(*   mongo       Mongo collection "interviews", one document per candidate *)
(*               {candidate_id, qa, interview_finished}                    *)
(* Every call to a store is one step of the request that makes it, so that *)
(* requests handled by different workers interleave between store calls.   *)
(* Both store clients are configured (SUPABASE_URL/KEY and MONGO_URL set); *)
(* a store call may still raise, which the handlers catch as written.      *)
(***************************************************************************)
EXTENDS Integers, Sequences, FiniteSets, TLC

\* ------------------------------------------------------------------ bounds
MaxEntries == 2      \* answers accepted per store before Submit is cut off
MaxLongEntries == 7  \* answers accepted in the long sequential runs

\* ------------------------------------------------------- program constants
QUESTIONS ==
  << "How many years of experience do you have?",
     "What is your current CTC?",
     "What is your expected CTC?",
     "Which is your current location?",
     "Are you open to relocation?",
     "What is your notice period?" >>

\* QUESTIONS[question_index] if 0 <= question_index < len(QUESTIONS)
\* else f"Q{question_index}"   (Python indexes from 0, TLA+ from 1)
QuestionOrLabel(question_index) ==
  IF 0 <= question_index /\ question_index < Len(QUESTIONS)
  THEN QUESTIONS[question_index + 1]
  ELSE "Q" \o ToString(question_index)

\* a directory in which every email has a registration
DirectoryOfAnyone ==
  [email \in {"a@x.com", "nobody@x.com"} |-> [id |-> "C1", name |-> "Asha"]]

\* the candidateregisters collection, filled by the registration service
Directory == [email \in {"a@x.com"} |-> [id |-> "C1", name |-> "Asha"]]

\* ------------------------------------------------------------------ inputs
Slots == {1, 2}                       \* requests that can be in flight
Emails == {"a@x.com", "nobody@x.com"} \* req.email after strip().lower()
CandidateIds == {"C1"}                \* candidate_id path parameter
SubmitIndexes == {0, 1}               \* question_index path parameter of submit_answer
UpdateIndexes == {0, 6}               \* UpdateAnswerRequest.question_index
LongRecOutcomes == {"text", "raise"}  \* recognition outcomes in the long runs
NewAnswers == {"six years"}           \* UpdateAnswerRequest.new_answer
NewStatuses == {"updated"}            \* UpdateAnswerRequest.status

VARIABLES
  sessions,    \* Supabase "sessions": sequence of rows
  interviews,  \* Supabase "interviews": sequence of rows
  mongo,       \* Mongo "interviews": sequence of documents
  candidates,  \* Supabase "candidates": set of candidate ids
  req,         \* per slot: the request in flight, its locals and its response
  faulted,     \* a store call has raised
  calls        \* per candidate: the submit_answer calls that returned an answer

vars == <<sessions, interviews, mongo, candidates, req, faulted, calls>>
stores == <<sessions, interviews, mongo, candidates>>

\* ----------------------------------------------------------------- helpers
\* .eq("candidate_id", candidate_id) on a table
Rows(tbl, c) == SelectSeq(tbl, LAMBDA row : row.candidate_id = c)

\* a delete whose filter matches nothing: every row is kept
KeepRows(tbl, c) == tbl

\* the rows a delete().eq("candidate_id", c) leaves in the table
OtherRows(tbl, c) == SelectSeq(tbl, LAMBDA row : row.candidate_id # c)

\* find_one({"candidate_id": c}): position of the first matching document, 0 if none
FindOne(c) ==
  IF \E i \in DOMAIN mongo : mongo[i].candidate_id = c
  THEN CHOOSE i \in DOMAIN mongo :
         /\ mongo[i].candidate_id = c
         /\ \A j \in 1..(i - 1) : mongo[j].candidate_id # c
  ELSE 0

\* qa of the candidate's document, [] when there is none (get_answers)
MongoQa(c) == IF FindOne(c) = 0 THEN <<>> ELSE mongo[FindOne(c)].qa

\* The outcomes of a store call: FALSE it returns, TRUE it raises. At most one
\* store call raises in a behaviour (a single fault).
Outcomes(mayFail) == IF mayFail /\ ~faulted THEN BOOLEAN ELSE {FALSE}

NoReq ==
  [kind |-> "idle", pc |-> "idle", cand |-> "", email |-> "", qi |-> -1,
   new_answer |-> "", new_status |-> "",
   q_read |-> -1, conv |-> "", rec |-> "", text |-> "", status |-> "",
   tmp |-> {}, code |-> 0, detail |-> "",
   r_done |-> FALSE, r_index |-> -1, r_question |-> "",
   qa_mongo |-> <<>>, qa_supabase |-> <<>>,
   pre_sessions |-> <<>>, pre_supa |-> 0, pre_mongo |-> 0,
   overlap |-> FALSE, raised |-> "", found |-> FALSE]

Idle(r) == req[r].kind = "idle"

\* A request may begin in a free slot; solo = one request at a time.
CanBegin(r, solo) ==
  /\ Idle(r)
  /\ solo => \A o \in Slots : Idle(o)

\* The new request's record, and the overlap mark on the requests it overlaps.
Begun(r, rec) ==
  [o \in Slots |->
     IF o = r
     THEN [rec EXCEPT !.overlap = \E x \in Slots \ {r} : ~Idle(x),
                      !.pre_sessions = Rows(sessions, rec.cand),
                      !.pre_supa = Len(Rows(interviews, rec.cand)),
                      !.pre_mongo = Len(MongoQa(rec.cand))]
     ELSE IF Idle(o) THEN req[o] ELSE [req[o] EXCEPT !.overlap = TRUE]]

\* raise HTTPException(status_code, detail) / return {...}: the request ends
Respond(r, rec, code, detail) ==
  req' = [req EXCEPT ![r] = [rec EXCEPT !.pc = "done", !.code = code, !.detail = detail]]

Goto(r, rec, pc) == req' = [req EXCEPT ![r] = [rec EXCEPT !.pc = pc]]

\* the request's record once a store call returned (f = FALSE) or raised
Called(r, f, call) == [req[r] EXCEPT !.raised = IF f THEN call ELSE @]

Init ==
  /\ sessions = <<>>
  /\ interviews = <<>>
  /\ mongo = <<>>
  /\ candidates = {}
  /\ req = [r \in Slots |-> NoReq]
  /\ faulted = FALSE
  /\ calls = [c \in CandidateIds |-> [answered |-> 0, recognised |-> 0]]

\* ---------------------------------------------------------- start_interview
\* the session row start_interview inserts
FreshSession(c) == [candidate_id |-> c, q_index |-> 0, status |-> "active"]

\* the document start_interview inserts when the candidate has none
FreshDocument(c) == [candidate_id |-> c, qa |-> <<>>, interview_finished |-> FALSE]

\* candidate_doc = safe_get_mongo_candidate_by_email(email); 404 when it is None
\* (no such email, or the lookup raised and was swallowed)
StartBegin(r, email, solo, mayFail) ==
  /\ CanBegin(r, solo)
  /\ \E f \in Outcomes(mayFail) :
       LET found == ~f /\ email \in DOMAIN Directory
           cid == IF found THEN Directory[email].id ELSE ""
           rec == [NoReq EXCEPT !.kind = "start", !.email = email, !.cand = cid,
                                !.raised = IF f THEN "candidateregisters.find_one" ELSE "", !.found = found]
           b == Begun(r, rec)
       IN /\ faulted' = (faulted \/ f)
          /\ req' = [b EXCEPT ![r] =
                       IF found
                       THEN [@ EXCEPT !.pc = "start_sync"]
                       ELSE [@ EXCEPT !.pc = "done", !.code = 404,
                                      !.detail = "Candidate not found"]]
  /\ UNCHANGED stores
  /\ UNCHANGED calls

\* Supabase candidates table: insert if not exists; a failure is logged only
StartSync(r, mayFail) ==
  /\ req[r].kind = "start" /\ req[r].pc = "start_sync"
  /\ \E f \in Outcomes(mayFail) :
       /\ faulted' = (faulted \/ f)
       /\ candidates' = IF f THEN candidates ELSE candidates \cup {req[r].cand}
       /\ Goto(r, Called(r, f, "candidates.insert"), "start_find")
  /\ UNCHANGED <<sessions, interviews, mongo>>
  /\ UNCHANGED calls

\* interviews_collection.find_one({"candidate_id": candidate_id})
StartMongoFind(r, mayFail) ==
  /\ req[r].kind = "start" /\ req[r].pc = "start_find"
  /\ \E f \in Outcomes(mayFail) :
       /\ faulted' = (faulted \/ f)
       /\ Goto(r, Called(r, f, "mongo.find_one"),
               IF ~f /\ FindOne(req[r].cand) = 0 THEN "start_insert" ELSE "start_delete")
  /\ UNCHANGED stores
  /\ UNCHANGED calls

\* interviews_collection.insert_one({candidate_id, "qa": [], "interview_finished": False})
StartMongoInsert(r, mayFail) ==
  /\ req[r].kind = "start" /\ req[r].pc = "start_insert"
  /\ \E f \in Outcomes(mayFail) :
       /\ faulted' = (faulted \/ f)
       /\ mongo' = IF f THEN mongo ELSE Append(mongo, FreshDocument(req[r].cand))
       /\ Goto(r, Called(r, f, "mongo.insert_one"), "start_delete")
  /\ UNCHANGED <<sessions, interviews, candidates>>
  /\ UNCHANGED calls

\* a restart that clears the candidate's Supabase transcript with the session
StartSessionDeleteWithTranscript(r, mayFail) ==
  /\ req[r].kind = "start" /\ req[r].pc = "start_delete"
  /\ sessions' = OtherRows(sessions, req[r].cand)
  /\ interviews' = OtherRows(interviews, req[r].cand)
  /\ Goto(r, req[r], "start_reset")
  /\ UNCHANGED <<mongo, candidates, faulted, calls>>

\* supabase.table("sessions").delete().eq("candidate_id", candidate_id); when it
\* raises, the insert of the same try block is skipped and the handler returns
StartSessionDelete(r, mayFail) ==
  /\ req[r].kind = "start" /\ req[r].pc = "start_delete"
  /\ \E f \in Outcomes(mayFail) :
       /\ faulted' = (faulted \/ f)
       /\ sessions' = IF f THEN sessions ELSE OtherRows(sessions, req[r].cand)
       /\ IF f THEN Respond(r, Called(r, f, "sessions.delete"), 200, "Interview started")
               ELSE Goto(r, req[r], "start_reset")
  /\ UNCHANGED <<interviews, mongo, candidates>>
  /\ UNCHANGED calls

\* supabase.table("sessions").insert({candidate_id, q_index: 0, status: active}),
\* then return {"message": "Interview started", ...}
StartSessionInsert(r, mayFail) ==
  /\ req[r].kind = "start" /\ req[r].pc = "start_reset"
  /\ \E f \in Outcomes(mayFail) :
       /\ faulted' = (faulted \/ f)
       /\ sessions' = IF f THEN sessions ELSE Append(sessions, FreshSession(req[r].cand))
       /\ Respond(r, Called(r, f, "sessions.insert"), 200, "Interview started")
  /\ UNCHANGED <<interviews, mongo, candidates>>
  /\ UNCHANGED calls

\* ---------------------------------------------------------------- response
\* The response has been sent: the slot is free again.
Return(r) ==
  /\ req[r].pc = "done"
  /\ req' = [req EXCEPT ![r] = NoReq]
  /\ UNCHANGED <<stores, faulted>>
  /\ UNCHANGED calls

\* ------------------------------------------------------------- get_question
\* if q_index >= len(QUESTIONS): return {"done": True, ...}
IsDone(q_index) == q_index >= Len(QUESTIONS)

\* if not session_res.data: raise HTTPException(404, "Session not found")
SessionFound(rows) == rows # <<>>


\* a get_question that consumes the question it hands out
GetQuestionAdvancing(r, c, solo, mayFail) ==
  /\ CanBegin(r, solo)
  /\ SessionFound(Rows(sessions, c))
  /\ LET q_index == Rows(sessions, c)[1].q_index IN
     /\ ~IsDone(q_index)
     /\ req' = [Begun(r, [NoReq EXCEPT !.kind = "question", !.cand = c]) EXCEPT ![r] =
                  [@ EXCEPT !.pc = "done", !.code = 200, !.found = TRUE,
                            !.q_read = q_index, !.r_index = q_index,
                            !.r_question = QUESTIONS[q_index + 1]]]
     /\ sessions' = [i \in DOMAIN sessions |->
                       IF sessions[i].candidate_id = c
                       THEN [sessions[i] EXCEPT !.q_index = q_index + 1]
                       ELSE sessions[i]]
  /\ UNCHANGED <<interviews, mongo, candidates, faulted, calls>>

\* The whole handler: one select on sessions, then speech synthesis and upload,
\* neither of which touches a store of the model. data[0] is any of the
\* candidate's rows (the select has no ORDER BY). tts: gTTS(...).save raises.
GetQuestion(r, c, solo, mayFail) ==
  /\ CanBegin(r, solo)
  /\ \E f \in Outcomes(mayFail) :
       LET rec == [NoReq EXCEPT !.kind = "question", !.cand = c, !.raised = IF f THEN "sessions.select" ELSE ""]
           b == Begun(r, rec)
           rows == Rows(sessions, c)
       IN /\ faulted' = (faulted \/ f)
          /\ IF f
             THEN req' = [b EXCEPT ![r] = [@ EXCEPT !.pc = "done", !.code = 500,
                                           !.detail = "Failed to fetch question"]]
             ELSE IF ~SessionFound(rows)
             THEN req' = [b EXCEPT ![r] = [@ EXCEPT !.pc = "done", !.code = 404,
                                           !.detail = "Session not found"]]
             ELSE \E i \in DOMAIN rows, tts \in BOOLEAN :
                    LET q_index == rows[i].q_index IN
                    req' = [b EXCEPT ![r] =
                      IF IsDone(q_index)
                      THEN [@ EXCEPT !.pc = "done", !.code = 200, !.found = TRUE,
                                     !.q_read = q_index, !.r_done = TRUE,
                                     !.detail = "Interview finished"]
                      ELSE IF ~tts
                      THEN [@ EXCEPT !.pc = "done", !.code = 500, !.found = TRUE,
                                     !.q_read = q_index,
                                     !.detail = "TTS generation failed"]
                      ELSE [@ EXCEPT !.pc = "done", !.code = 200, !.found = TRUE,
                                     !.q_read = q_index, !.r_done = FALSE,
                                     !.r_index = q_index,
                                     !.r_question = QUESTIONS[q_index + 1]]]
  /\ UNCHANGED stores
  /\ UNCHANGED calls

\* ------------------------------------------------------------ submit_answer
\* convert_to_wav(tmp_input.name):
\*   already_wav     the upload is PCM 16k mono: input_path is returned
\*   converted       ffmpeg wrote the file mkstemp created
\*   ffmpeg_error    ffmpeg exited non-zero (CalledProcessError): the output is
\*                   removed and HTTPException(500) raised
\*   ffmpeg_missing  subprocess.run could not launch ffmpeg (OSError, not
\*                   CalledProcessError): the exception leaves convert_to_wav
\*                   with the mkstemp file still on disk
ConvOutcomes == {"already_wav", "converted", "ffmpeg_error", "ffmpeg_missing"}


\* a conversion failure that is swallowed instead of raised
ConvertNeverRaises(conv) == FALSE

\* convert_to_wav raised: the request is aborted before transcription
ConvertRaises(conv) == conv \in {"ffmpeg_error", "ffmpeg_missing"}

\* whisper.decode: text, empty text (no speech), or an exception
RecOutcomes == {"text", "empty", "raise"}

\* text_answer and status after the transcription try block (lines 351-366)
Transcribe(rec) ==
  IF rec = "raise" THEN [text |-> "(Transcription failed)", status |-> "error"]
  ELSE IF rec = "empty" THEN [text |-> "(Could not detect speech)", status |-> "ok"]
  ELSE [text |-> "five years", status |-> "ok"]


\* an advance that writes back the index it read
NewIndexStuck(q_index) == q_index

\* new_index = session_res.data[0].get("q_index", 0) + 1
NewIndex(q_index) == q_index + 1

\* the row inserted into Supabase "interviews"
InterviewRow(c, question_index, text, status) ==
  [candidate_id |-> c, question |-> QuestionOrLabel(question_index),
   answer_text |-> text, status |-> status]

\* the value pushed onto qa: a list holding one {question, answer, audio_url}
QaItem(question_index, text) ==
  << [question |-> QuestionOrLabel(question_index), answer |-> text] >>

\* Submit is cut off once the candidate has cap answers or reached index cap
BelowCap(c, cap) ==
  /\ Len(Rows(interviews, c)) < cap
  /\ Len(MongoQa(c)) < cap
  /\ \A i \in DOMAIN sessions : sessions[i].q_index < cap

\* validate session exists (lines 327-337)
SubmitBegin(r, c, qi, solo, mayFail, cap) ==
  /\ CanBegin(r, solo)
  /\ \E f \in Outcomes(mayFail) :
       LET rec == [NoReq EXCEPT !.kind = "submit", !.cand = c, !.qi = qi, !.raised = IF f THEN "sessions.select" ELSE ""]
           b == Begun(r, rec)
           rows == Rows(sessions, c)
       IN /\ faulted' = (faulted \/ f)
          /\ IF f
             THEN req' = [b EXCEPT ![r] = [@ EXCEPT !.pc = "done", !.code = 500,
                                           !.detail = "Failed to validate session"]]
             ELSE IF ~SessionFound(rows)
             THEN req' = [b EXCEPT ![r] = [@ EXCEPT !.pc = "done", !.code = 404,
                                           !.detail = "Session not found"]]
             ELSE /\ BelowCap(c, cap)
                  /\ \E i \in DOMAIN rows :
                       req' = [b EXCEPT ![r] = [@ EXCEPT !.pc = "sub_audio", !.found = TRUE,
                                                !.q_read = rows[i].q_index]]
  /\ UNCHANGED stores
  /\ UNCHANGED calls

\* Save the upload (after await file.read()), convert, transcribe, upload the
\* original audio: lines 339-373, all local to the request. When convert_to_wav
\* raises, the finally block runs: it removes tmp_input, and the converted file
\* only if tmp_wav_path was assigned.
SubmitAudio(r, recs) ==
  /\ req[r].kind = "submit" /\ req[r].pc = "sub_audio"
  /\ \E conv \in ConvOutcomes :
       IF ConvertRaises(conv)
       THEN Respond(r, [req[r] EXCEPT !.conv = conv,
                          !.tmp = IF conv = "ffmpeg_missing" THEN {"wav"} ELSE {}],
                    500,
                    IF conv = "ffmpeg_error" THEN "Audio conversion failed on server"
                                             ELSE "Failed to submit answer")
       ELSE \E rec \in recs :
              Goto(r, [req[r] EXCEPT !.conv = conv, !.rec = rec,
                         !.text = Transcribe(rec).text,
                         !.status = Transcribe(rec).status,
                         !.tmp = IF conv = "converted" THEN {"in", "wav"} ELSE {"in"}],
                   "sub_insert")
  /\ UNCHANGED <<stores, faulted>>
  /\ UNCHANGED calls

\* supabase.table("interviews").insert({...})
SubmitSupabaseInsert(r, mayFail) ==
  /\ req[r].kind = "submit" /\ req[r].pc = "sub_insert"
  /\ \E f \in Outcomes(mayFail) :
       /\ faulted' = (faulted \/ f)
       /\ interviews' =
            IF f THEN interviews
            ELSE Append(interviews,
                        InterviewRow(req[r].cand, req[r].qi, req[r].text, req[r].status))
       /\ Goto(r, Called(r, f, "interviews.insert"), "sub_push")
  /\ UNCHANGED <<sessions, mongo, candidates>>
  /\ UNCHANGED calls


\* a push that keeps only the answers whose transcription succeeded
SubmitMongoPushOkOnly(r, mayFail) ==
  /\ req[r].kind = "submit" /\ req[r].pc = "sub_push"
  /\ mongo' =
       IF req[r].status # "ok" \/ FindOne(req[r].cand) = 0 THEN mongo
       ELSE [mongo EXCEPT ![FindOne(req[r].cand)].qa =
               Append(@, QaItem(req[r].qi, req[r].text))]
  /\ Goto(r, req[r], "sub_advance")
  /\ UNCHANGED <<sessions, interviews, candidates, faulted, calls>>

\* interviews_collection.update_one({"candidate_id": c}, {"$push": {"qa": [...]}})
\* no upsert: without a document nothing is written
SubmitMongoPush(r, mayFail) ==
  /\ req[r].kind = "submit" /\ req[r].pc = "sub_push"
  /\ \E f \in Outcomes(mayFail) :
       LET d == FindOne(req[r].cand) IN
       /\ faulted' = (faulted \/ f)
       /\ mongo' =
            IF f \/ d = 0 THEN mongo
            ELSE [mongo EXCEPT ![d].qa = Append(@, QaItem(req[r].qi, req[r].text))]
       /\ Goto(r, Called(r, f, "mongo.update_one"), "sub_advance")
  /\ UNCHANGED <<sessions, interviews, candidates>>
  /\ UNCHANGED calls

\* an advance that increments the stored q_index instead of writing read + 1
SubmitAdvanceIncrementing(r, mayFail) ==
  /\ req[r].kind = "submit" /\ req[r].pc = "sub_advance"
  /\ sessions' = [i \in DOMAIN sessions |->
                    IF sessions[i].candidate_id = req[r].cand
                    THEN [sessions[i] EXCEPT !.q_index = @ + 1]
                    ELSE sessions[i]]
  /\ Respond(r, [req[r] EXCEPT !.tmp = {}], 200, req[r].status)
  /\ UNCHANGED <<interviews, mongo, candidates, faulted>>
  /\ calls' = [calls EXCEPT ![req[r].cand] =
                 [answered |-> @.answered + 1,
                  recognised |-> @.recognised + (IF req[r].rec = "text" THEN 1 ELSE 0)]]

\* Advance session index (lines 398-404), return the answer, and the finally
\* block removes both temporary files
SubmitAdvance(r, mayFail) ==
  /\ req[r].kind = "submit" /\ req[r].pc = "sub_advance"
  /\ \E f \in Outcomes(mayFail) :
       /\ faulted' = (faulted \/ f)
       /\ sessions' =
            IF f THEN sessions
            ELSE [i \in DOMAIN sessions |->
                    IF sessions[i].candidate_id = req[r].cand
                    THEN [sessions[i] EXCEPT !.q_index = NewIndex(req[r].q_read)]
                    ELSE sessions[i]]
       /\ Respond(r, [Called(r, f, "sessions.update") EXCEPT !.tmp = {}], 200, req[r].status)
  /\ UNCHANGED <<interviews, mongo, candidates>>
  /\ calls' = [calls EXCEPT ![req[r].cand] =
                 [answered |-> @.answered + 1,
                  recognised |-> @.recognised + (IF req[r].rec = "text" THEN 1 ELSE 0)]]

\* --------------------------------------------------------- finish_interview
\* update_one({"candidate_id": c}, {"$set": {"interview_finished": True}})
\* (the candidate lookup before it only fills name and email of the response)
FinishBegin(r, c, solo, mayFail) ==
  /\ CanBegin(r, solo)
  /\ \E f \in Outcomes(mayFail) :
       LET rec == [NoReq EXCEPT !.kind = "finish", !.cand = c, !.raised = IF f THEN "mongo.update_one" ELSE ""]
           b == Begun(r, rec)
           d == FindOne(c)
       IN /\ faulted' = (faulted \/ f)
          /\ mongo' = IF f \/ d = 0 THEN mongo
                      ELSE [mongo EXCEPT ![d].interview_finished = TRUE]
          /\ req' = [b EXCEPT ![r] = [@ EXCEPT !.pc = "fin_session"]]
  /\ UNCHANGED <<sessions, interviews, candidates>>
  /\ UNCHANGED calls

\* a finish that removes the session row instead of marking it
FinishSessionDeleting(r, mayFail) ==
  /\ req[r].kind = "finish" /\ req[r].pc = "fin_session"
  /\ sessions' = OtherRows(sessions, req[r].cand)
  /\ Respond(r, req[r], 200, "Interview finished")
  /\ UNCHANGED <<interviews, mongo, candidates, faulted, calls>>

\* supabase.table("sessions").update({"status": "finished"}).eq(candidate_id)
FinishSession(r, mayFail) ==
  /\ req[r].kind = "finish" /\ req[r].pc = "fin_session"
  /\ \E f \in Outcomes(mayFail) :
       /\ faulted' = (faulted \/ f)
       /\ sessions' =
            IF f THEN sessions
            ELSE [i \in DOMAIN sessions |->
                    IF sessions[i].candidate_id = req[r].cand
                    THEN [sessions[i] EXCEPT !.status = "finished"]
                    ELSE sessions[i]]
       /\ Respond(r, Called(r, f, "sessions.update"), 200, "Interview finished")
  /\ UNCHANGED <<interviews, mongo, candidates>>
  /\ UNCHANGED calls

\* -------------------------------------------------------------- get_answers
\* mongo_doc = find_one({"candidate_id": c}); qa_mongo = mongo_doc.get("qa", [])
AnswersBegin(r, c, solo, mayFail) ==
  /\ CanBegin(r, solo)
  /\ \E f \in Outcomes(mayFail) :
       LET rec == [NoReq EXCEPT !.kind = "answers", !.cand = c, !.raised = IF f THEN "mongo.find_one" ELSE "",
                                !.qa_mongo = IF f THEN <<>> ELSE MongoQa(c)]
           b == Begun(r, rec)
       IN /\ faulted' = (faulted \/ f)
          /\ req' = [b EXCEPT ![r] = [@ EXCEPT !.pc = "ans_supabase"]]
  /\ UNCHANGED stores
  /\ UNCHANGED calls

\* supa_res = supabase.table("interviews").select("*").eq(candidate_id);
\* qa_supabase = supa_res.data, [] when the select raised
AnswersSupabase(r, mayFail) ==
  /\ req[r].kind = "answers" /\ req[r].pc = "ans_supabase"
  /\ \E f \in Outcomes(mayFail) :
       /\ faulted' = (faulted \/ f)
       /\ Respond(r, [Called(r, f, "interviews.select") EXCEPT
                        !.qa_supabase = IF f THEN <<>> ELSE Rows(interviews, req[r].cand)],
                  200, "")
  /\ UNCHANGED stores
  /\ UNCHANGED calls

\* ------------------------------------------------------------ update_answer
\* question = QUESTIONS[i] if 0 <= i < len(QUESTIONS) else None
ValidIndex(question_index) == 0 <= question_index /\ question_index < Len(QUESTIONS)

\* The filter {"qa.question": question} on one element of qa. submit_answer
\* pushes a list onto qa, so every element is itself an array, and a dotted
\* path does not descend into an array nested directly in an array.
QaElementMatches(item, question) == FALSE

\* the first document matching {"candidate_id": c, "qa.question": question}, 0 if none
FindOneWithQuestion(c, question) ==
  LET hit(i) == /\ mongo[i].candidate_id = c
                /\ \E k \in DOMAIN mongo[i].qa : QaElementMatches(mongo[i].qa[k], question)
  IN IF \E i \in DOMAIN mongo : hit(i)
     THEN CHOOSE i \in DOMAIN mongo : hit(i) /\ \A j \in 1..(i - 1) : ~hit(j)
     ELSE 0

\* {"$set": {"qa.$.answer": new_answer, "qa.$.status": status}}: the first
\* element of qa that matched the filter
SetMatchedQa(qa, question, new_answer, new_status) ==
  LET k == CHOOSE k \in DOMAIN qa :
             /\ QaElementMatches(qa[k], question)
             /\ \A j \in 1..(k - 1) : ~QaElementMatches(qa[j], question)
  IN [qa EXCEPT ![k] = [n \in DOMAIN qa[k] |->
        [question |-> qa[k][n].question, answer |-> new_answer, status |-> new_status]]]

\* validate question_index (400), then the Mongo update_one
UpdateBegin(r, c, qi, new_answer, new_status, solo, mayFail) ==
  /\ CanBegin(r, solo)
  /\ LET rec == [NoReq EXCEPT !.kind = "update", !.cand = c, !.qi = qi,
                              !.new_answer = new_answer, !.new_status = new_status]
         b == Begun(r, rec)
     IN IF ~ValidIndex(qi)
        THEN /\ req' = [b EXCEPT ![r] = [@ EXCEPT !.pc = "done", !.code = 400,
                                         !.detail = "Invalid question_index"]]
             /\ UNCHANGED <<mongo, faulted>>
        ELSE \E f \in Outcomes(mayFail) :
               LET d == FindOneWithQuestion(c, QUESTIONS[qi + 1]) IN
               /\ faulted' = (faulted \/ f)
               /\ mongo' = IF f \/ d = 0 THEN mongo
                           ELSE [mongo EXCEPT ![d].qa =
                                   SetMatchedQa(@, QUESTIONS[qi + 1], new_answer, new_status)]
               /\ req' = [b EXCEPT ![r] = [@ EXCEPT !.pc = "upd_supabase", !.raised = IF f THEN "mongo.update_one" ELSE ""]]
  /\ UNCHANGED <<sessions, interviews, candidates>>
  /\ UNCHANGED calls

\* supabase.table("interviews").update({answer_text, status})
\*   .eq("candidate_id", c).eq("question", question): every matching row
UpdateSupabase(r, mayFail) ==
  /\ req[r].kind = "update" /\ req[r].pc = "upd_supabase"
  /\ \E f \in Outcomes(mayFail) :
       /\ faulted' = (faulted \/ f)
       /\ interviews' =
            IF f THEN interviews
            ELSE [i \in DOMAIN interviews |->
                    IF /\ interviews[i].candidate_id = req[r].cand
                       /\ interviews[i].question = QUESTIONS[req[r].qi + 1]
                    THEN [interviews[i] EXCEPT !.answer_text = req[r].new_answer,
                                               !.status = req[r].new_status]
                    ELSE interviews[i]]
       /\ Respond(r, Called(r, f, "interviews.update"), 200, "Answer updated successfully")
  /\ UNCHANGED <<sessions, mongo, candidates>>
  /\ UNCHANGED calls

\* ----------------------------------------------------------- specifications
\* Spec: one request at a time, each store call a step that may raise.
Next ==
  \E r \in {1} :
    \/ \E e \in Emails : StartBegin(r, e, TRUE, TRUE)
    \/ StartSync(r, TRUE)
    \/ StartMongoFind(r, TRUE)
    \/ StartMongoInsert(r, TRUE)
    \/ StartSessionDelete(r, TRUE)
    \/ StartSessionInsert(r, TRUE)
    \/ \E c \in CandidateIds : GetQuestion(r, c, TRUE, TRUE)
    \/ \E c \in CandidateIds, qi \in SubmitIndexes : SubmitBegin(r, c, qi, TRUE, TRUE, MaxEntries)
    \/ SubmitAudio(r, RecOutcomes)
    \/ SubmitSupabaseInsert(r, TRUE)
    \/ SubmitMongoPush(r, TRUE)
    \/ SubmitAdvance(r, TRUE)
    \/ \E c \in CandidateIds : FinishBegin(r, c, TRUE, TRUE)
    \/ FinishSession(r, TRUE)
    \/ \E c \in CandidateIds : AnswersBegin(r, c, TRUE, TRUE)
    \/ AnswersSupabase(r, TRUE)
    \/ \E c \in CandidateIds, qi \in UpdateIndexes, a \in NewAnswers, st \in NewStatuses :
         UpdateBegin(r, c, qi, a, st, TRUE, TRUE)
    \/ UpdateSupabase(r, TRUE)
    \/ Return(r)

Spec == Init /\ [][Next]_vars

\* SpecLong: one request at a time, no store call raises, and the client sends
\* the question index the session is at; long enough to answer every question
\* and go on submitting.
CurrentIndexes(c) == {sessions[i].q_index : i \in {j \in DOMAIN sessions : sessions[j].candidate_id = c}}

NextLong ==
  \E r \in {1} :
    \/ \E e \in Emails : StartBegin(r, e, TRUE, FALSE)
    \/ StartSync(r, FALSE)
    \/ StartMongoFind(r, FALSE)
    \/ StartMongoInsert(r, FALSE)
    \/ StartSessionDelete(r, FALSE)
    \/ StartSessionInsert(r, FALSE)
    \/ \E c \in CandidateIds : GetQuestion(r, c, TRUE, FALSE)
    \/ \E c \in CandidateIds : \E qi \in CurrentIndexes(c) :
         SubmitBegin(r, c, qi, TRUE, FALSE, MaxLongEntries)
    \/ SubmitAudio(r, LongRecOutcomes)
    \/ SubmitSupabaseInsert(r, FALSE)
    \/ SubmitMongoPush(r, FALSE)
    \/ SubmitAdvance(r, FALSE)
    \/ \E c \in CandidateIds : FinishBegin(r, c, TRUE, FALSE)
    \/ FinishSession(r, FALSE)
    \/ Return(r)

SpecLong == Init /\ [][NextLong]_vars

\* SpecConc: two requests in flight at once (several server workers share the
\* stores), interleaved at every store call; no store call raises. The client
\* answers the first question and recognition returns text.
ConcEmails == DOMAIN Directory
ConcIndexes == {0}
ConcRecOutcomes == {"text"}

NextConc ==
  \E r \in Slots :
    \/ \E e \in ConcEmails : StartBegin(r, e, FALSE, FALSE)
    \/ StartSync(r, FALSE)
    \/ StartMongoFind(r, FALSE)
    \/ StartMongoInsert(r, FALSE)
    \/ StartSessionDelete(r, FALSE)
    \/ StartSessionInsert(r, FALSE)
    \/ \E c \in CandidateIds : \E qi \in ConcIndexes :
         SubmitBegin(r, c, qi, FALSE, FALSE, MaxEntries)
    \/ SubmitAudio(r, ConcRecOutcomes)
    \/ SubmitSupabaseInsert(r, FALSE)
    \/ SubmitMongoPush(r, FALSE)
    \/ SubmitAdvance(r, FALSE)
    \/ \E c \in CandidateIds : FinishBegin(r, c, FALSE, FALSE)
    \/ FinishSession(r, FALSE)
    \/ Return(r)

SpecConc == Init /\ [][NextConc]_vars

\* --------------------------------------------------------------- properties
\* request r of this kind has ended and its response has not been collected yet
Ended(r, kind) == req[r].kind = kind /\ req[r].pc = "done"

\* the q_index of every session row of c is that of the row before the request
\* of slot r began, plus d
IndexMoved(r, d) ==
  LET now == Rows(sessions, req[r].cand)
      pre == req[r].pre_sessions
  IN /\ Len(now) = Len(pre)
     /\ \A i \in DOMAIN now : now[i].q_index = pre[i].q_index + d

\* the number of transcript entries of c in each store is that before the
\* request of slot r began, plus d
EntriesAdded(r, d) ==
  /\ Len(Rows(interviews, req[r].cand)) = req[r].pre_supa + d
  /\ Len(MongoQa(req[r].cand)) = req[r].pre_mongo + d

\* C1: the q_index of every session is always in 0..6, the number of questions.
C1_IndexInRange ==
  \A i \in DOMAIN sessions :
    0 <= sessions[i].q_index /\ sessions[i].q_index <= Len(QUESTIONS)

\* C2: get_question answers done = true exactly when the q_index it read is 6,
\* and otherwise answers done = false with that index and its question.
C2_DoneIffIndexIsLast ==
  \A r \in Slots :
    (Ended(r, "question") /\ req[r].code = 200) =>
      /\ req[r].r_done <=> (req[r].q_read = Len(QUESTIONS))
      /\ ~req[r].r_done =>
           /\ req[r].r_index = req[r].q_read
           /\ req[r].r_question = QUESTIONS[req[r].q_read + 1]

\* C3: a submit_answer that ran alone on an existing session, with no store
\* call raising, and whose recognition gave non-empty text, answers 200 with
\* status "ok", has moved q_index up by exactly 1 and has added exactly one
\* entry for the candidate to each transcript store.
C3_RecognisedSubmitAdvancesAndAppends ==
  \A r \in Slots :
    (Ended(r, "submit") /\ req[r].rec = "text" /\ ~req[r].overlap /\ ~faulted) =>
      /\ req[r].code = 200
      /\ req[r].status = "ok"
      /\ req[r].pre_sessions # <<>>
      /\ IndexMoved(r, 1)
      /\ EntriesAdded(r, 1)

\* C3 witness: right after Start, one such submit has moved the index from 0 to 1
C3_Witness ==
  \E r \in Slots :
    /\ Ended(r, "submit") /\ req[r].rec = "text" /\ ~req[r].overlap /\ ~faulted
    /\ req[r].pre_sessions = <<FreshSession(req[r].cand)>>
    /\ req[r].pre_supa = 0
    /\ Rows(sessions, req[r].cand)[1].q_index = 1

\* C4: a submit_answer whose recognition raised has added one entry carrying
\* the failure sentinel and status "error", and has left q_index unchanged.
C4_FailedRecognitionKeepsIndex ==
  \A r \in Slots :
    (Ended(r, "submit") /\ req[r].rec = "raise" /\ ~req[r].overlap /\ ~faulted) =>
      /\ req[r].text = "(Transcription failed)"
      /\ req[r].status = "error"
      /\ EntriesAdded(r, 1)
      /\ IndexMoved(r, 0)

\* C5: a submit_answer whose recognition gave empty text answers
\* "(Could not detect speech)" and has left q_index unchanged, so that the next
\* get_question asks the same question again.
C5_SilentAudioKeepsIndex ==
  \A r \in Slots :
    (Ended(r, "submit") /\ req[r].rec = "empty" /\ ~req[r].overlap /\ ~faulted) =>
      /\ req[r].text = "(Could not detect speech)"
      /\ IndexMoved(r, 0)

Finished(c) ==
  /\ Rows(sessions, c) # <<>>
  /\ \A i \in DOMAIN Rows(sessions, c) : Rows(sessions, c)[i].status = "finished"

QuestionStep(r) == req[r].kind = "idle" /\ req'[r].kind = "question"

C9_NoActiveSessionIsNotFound ==
  \A r \in Slots :
    ( /\ Ended(r, "question") \/ Ended(r, "submit")
      /\ ~req[r].overlap /\ ~faulted
      /\ req[r].detail # "TTS generation failed"
      /\ \A i \in DOMAIN req[r].pre_sessions : req[r].pre_sessions[i].status # "active" ) =>
      /\ req[r].code = 404
      /\ IndexMoved(r, 0)
      /\ EntriesAdded(r, 0)

\* C10: a submit_answer whose audio conversion failed answers 500, and has
\* added no transcript entry and left q_index unchanged; one whose recognition
\* raised still answers, with the sentinel text and status "error".
C10_ConversionAbortsRecognitionDoesNot ==
  \A r \in Slots :
    /\ (Ended(r, "submit") /\ req[r].conv \in {"ffmpeg_error", "ffmpeg_missing"}
        /\ ~req[r].overlap) =>
         /\ req[r].code = 500
         /\ IndexMoved(r, 0)
         /\ EntriesAdded(r, 0)
    /\ (Ended(r, "submit") /\ req[r].rec = "raise") =>
         /\ req[r].code = 200
         /\ req[r].text = "(Transcription failed)"
         /\ req[r].status = "error"

\* C10 witness: a conversion failure on a session at q_index 1 with one entry
C10_Witness ==
  \E r \in Slots :
    /\ Ended(r, "submit") /\ req[r].conv = "ffmpeg_error" /\ req[r].code = 500
    /\ req[r].pre_sessions # <<>> /\ req[r].pre_sessions[1].q_index = 1
    /\ req[r].pre_supa = 1

\* C11: when a submit_answer request ends, on whatever path, none of the
\* temporary files it created (the saved upload, the converted waveform) is
\* left on disk.
C11_TempFilesRemoved ==
  \A r \in Slots : Ended(r, "submit") => req[r].tmp = {}

\* the session rows of the candidate are those from before the request of slot
\* r began, with their status set to finished when mark holds
SessionsAsBefore(r, mark) ==
  LET now == Rows(sessions, req[r].cand)
      pre == req[r].pre_sessions
  IN /\ Len(now) = Len(pre)
     /\ \A i \in DOMAIN now :
          /\ now[i].q_index = pre[i].q_index
          /\ now[i].status = IF mark THEN "finished" ELSE pre[i].status

C13_UnknownEmailIsNotFound ==
  [][\A r \in Slots :
       (req[r].kind = "idle" /\ req'[r].kind = "start"
          /\ req'[r].email = "nobody@x.com") =>
         /\ req'[r].pc = "done" /\ req'[r].code = 404
         /\ req'[r].detail = "Candidate not found"
         /\ UNCHANGED stores]_vars

\* C13 witness: a start for the unregistered email was answered 404 while a
\* session and a transcript entry of a registered candidate exist
C13_Witness ==
  \E r \in Slots :
    /\ Ended(r, "start") /\ req[r].email = "nobody@x.com" /\ req[r].code = 404
    /\ sessions # <<>> /\ interviews # <<>>

\* C14: when update_answer with a valid question_index has returned, every
\* transcript entry of the candidate for that question carries the new answer,
\* in the Supabase table and in the Mongo document alike, and the session
\* index and the number of entries are as before (no store call having raised).
C14_UpdateReplacesInBothStores ==
  \A r \in Slots :
    (Ended(r, "update") /\ req[r].code = 200 /\ ~faulted
       /\ ~req[r].overlap) =>
      LET question == QUESTIONS[req[r].qi + 1]
          rows == Rows(interviews, req[r].cand)
          qa == MongoQa(req[r].cand)
      IN /\ \A i \in DOMAIN rows :
              rows[i].question = question =>
                /\ rows[i].answer_text = req[r].new_answer
                /\ rows[i].status = req[r].new_status
         /\ \A k \in DOMAIN qa : \A n \in DOMAIN qa[k] :
              qa[k][n].question = question =>
                qa[k][n].answer = req[r].new_answer
         /\ IndexMoved(r, 0)
         /\ EntriesAdded(r, 0)

\* C18: whatever question_index a submit_answer call passes in its path, the
\* entry it appends (to the Supabase table and to the Mongo document) records
\* the question at the q_index the session had when the call was made.
C18_RecordedQuestionIsCurrent ==
  \A r \in Slots :
    (Ended(r, "submit") /\ req[r].code = 200 /\ ~faulted /\ ~req[r].overlap
       /\ EntriesAdded(r, 1)) =>
      LET rows == Rows(interviews, req[r].cand)
          qa == MongoQa(req[r].cand)
          current == QuestionOrLabel(req[r].pre_sessions[1].q_index)
      IN /\ rows[Len(rows)].question = current
         /\ \A n \in DOMAIN qa[Len(qa)] : qa[Len(qa)][n].question = current

\* C19: no step of any operation removes a transcript entry: the number of
\* entries of a candidate never decreases, in the Supabase table or in the
\* Mongo document.
C19_TranscriptAppendOnly ==
  [][\A c \in CandidateIds :
       /\ Len(Rows(interviews, c))' >= Len(Rows(interviews, c))
       /\ Len(MongoQa(c))' >= Len(MongoQa(c))]_vars

\* C19 witness: an interview with a recorded answer was restarted, and the
\* entry is still in both stores
C19_Witness ==
  \E r \in Slots :
    /\ Ended(r, "start") /\ req[r].code = 200 /\ req[r].raised = ""
    /\ req[r].pre_sessions # <<>>
    /\ req[r].pre_supa >= 1 /\ req[r].pre_mongo >= 1
    /\ Rows(sessions, req[r].cand) =
         <<[candidate_id |-> req[r].cand, q_index |-> 0, status |-> "active"]>>
    /\ EntriesAdded(r, 0)

\* the candidate has a session row and every session row of c is active
ActiveRows(rows) ==
  /\ Len(rows) >= 1
  /\ \A i \in DOMAIN rows : rows[i].status = "active"

\* C15: in no step taken while the candidate's session is active, other than a
\* step of start_interview (which deletes or inserts the row), does the
\* session's q_index decrease, whatever the interleaving of the submit_answer
\* requests.
C15_IndexNeverDecreasesWhileActive ==
  [][\A c \in CandidateIds :
       LET now == Rows(sessions, c)
           nxt == Rows(sessions, c)'
       IN (ActiveRows(now) /\ ActiveRows(nxt) /\ Len(now) = Len(nxt)) =>
            \A i \in DOMAIN now : nxt[i].q_index >= now[i].q_index]_vars

\* C16: a candidate never has more than one session row with status active,
\* also when two start_interview requests for the candidate overlap.
C16_AtMostOneActiveSession ==
  \A c \in CandidateIds :
    Cardinality({i \in DOMAIN sessions :
                   sessions[i].candidate_id = c /\ sessions[i].status = "active"}) <= 1

\* two submit_answer requests of one candidate have both returned 200, having
\* read the same q_index and begun on the same transcript (neither had appended
\* its entry when the other began)
BothSubmitted(r1, r2) ==
  /\ r1 # r2
  /\ Ended(r1, "submit") /\ Ended(r2, "submit")
  /\ req[r1].code = 200 /\ req[r2].code = 200
  /\ req[r1].cand = req[r2].cand
  /\ req[r1].q_read = req[r2].q_read
  /\ req[r1].pre_supa = req[r2].pre_supa /\ req[r1].pre_mongo = req[r2].pre_mongo

\* C17: when two overlapping submit_answer requests for the same candidate
\* have both passed the session check on the same q_index and both completed,
\* each has appended its transcript entry (two more in each store) and the
\* session's q_index is the value they read plus 1 only.
C17_TwoSubmitsAdvanceOnce ==
  \A r1, r2 \in Slots :
    BothSubmitted(r1, r2) =>
      /\ EntriesAdded(r1, 2)
      /\ LET rows == Rows(sessions, req[r1].cand)
         IN /\ Len(rows) >= 1
            /\ \A i \in DOMAIN rows : rows[i].q_index = req[r1].q_read + 1

\* C17 witness: two submissions for question 0 of an active session both
\* completed with recognised text
C17_Witness ==
  \E r1, r2 \in Slots :
    /\ BothSubmitted(r1, r2)
    /\ req[r1].qi = 0 /\ req[r2].qi = 0 /\ req[r1].q_read = 0
    /\ req[r1].rec = "text" /\ req[r2].rec = "text"
    /\ Len(Rows(interviews, req[r1].cand)) = 2
    /\ Rows(sessions, req[r1].cand) =
         <<[candidate_id |-> req[r1].cand, q_index |-> 1, status |-> "active"]>>

\* C20: once start_interview has completed and reset the candidate's session
\* to q_index 0, a submit_answer request still in flight that read the session
\* before the reset (it read a q_index of 1 or more, while the row has been 0
\* since the reset) leaves q_index at 0 in every step it takes.
C20_StaleSubmitKeepsReset ==
  [][\A r1, r2 \in Slots : \A c \in CandidateIds :
       LET now == Rows(sessions, c)
           nxt == Rows(sessions, c)'
       IN (/\ Ended(r1, "start") /\ req[r1].code = 200 /\ req[r1].raised = ""
           /\ req[r1].cand = c
           /\ req[r2].kind = "submit" /\ req[r2].pc # "done"
           /\ req[r2].cand = c /\ req[r2].q_read >= 1
           /\ Len(now) >= 1
           /\ \A i \in DOMAIN now : now[i].q_index = 0) =>
            /\ Len(nxt) >= 1
            /\ \A i \in DOMAIN nxt : nxt[i].q_index = 0]_vars

\* the candidate's transcript document exists and has interview_finished = true
DocumentFinished(c) ==
  /\ FindOne(c) # 0
  /\ mongo[FindOne(c)].interview_finished

\* C21: whenever no request is in flight and no store call has raised, the
\* candidate's session has status finished exactly when the candidate's
\* transcript document has interview_finished = true.
C21_StoresAgreeOnFinished ==
  ((\A r \in Slots : Idle(r)) /\ ~faulted) =>
    \A c \in CandidateIds : Finished(c) <=> DocumentFinished(c)

====
